---------------------------- MODULE Spec2Model ----------------------------
(***************************************************************************)
(* Model of soundgen.py: the ADSR envelope calculator (adsr), the          *)
(* nearest-zero-crossing locator (find_nearest_zero_crossing) and the      *)
(* periodic waveform generators (sine_wave, sawtooth_wave, triangle_wave,  *)
(* pulse_wave).                                                            *)
(*                                                                         *)
(* The library is a set of pure functions with no state kept across calls. *)
(* The state of the model is one call on the library: which function (op), *)
(* with which arguments (args), and what it produced (ret).  The arguments *)
(* are drawn from bounded sets; each action runs one public function.      *)
(*                                                                         *)
(* Numbers: Python floats are modelled as exact rationals <<num, den>> in  *)
(* lowest terms with den > 0, so equal values are equal tuples.  Floating  *)
(* point rounding error (and the final cast to float32) is not modelled.   *)
(***************************************************************************)
EXTENDS Integers, Sequences, FiniteSets, TLC

VARIABLES op, args, ret

vars == <<op, args, ret>>

(***************************************************************************)
(* Exact rational arithmetic.                                              *)
(***************************************************************************)
Abs(x) == IF x < 0 THEN -x ELSE x

RECURSIVE GCD(_, _)
GCD(a, b) == IF b = 0 THEN a ELSE GCD(b, a % b)

\* the rational n/d (d # 0) in lowest terms with a positive denominator
Rat(n, d) ==
    LET g == GCD(Abs(n), Abs(d))
        s == IF d < 0 THEN -1 ELSE 1
    IN  <<(s * n) \div g, (s * d) \div g>>

Whole(n) == <<n, 1>>
Zero == Whole(0)
One == Whole(1)

RAdd(x, y) == Rat(x[1] * y[2] + y[1] * x[2], x[2] * y[2])
RSub(x, y) == Rat(x[1] * y[2] - y[1] * x[2], x[2] * y[2])
RMul(x, y) == Rat(x[1] * y[1], x[2] * y[2])
RDiv(x, y) == Rat(x[1] * y[2], x[2] * y[1])
RNeg(x) == <<-x[1], x[2]>>
RAbs(x) == <<Abs(x[1]), x[2]>>
RLt(x, y) == x[1] * y[2] < y[1] * x[2]
RLe(x, y) == x[1] * y[2] <= y[1] * x[2]
RMax(x, y) == IF RLt(x, y) THEN y ELSE x
RMin(x, y) == IF RLt(y, x) THEN y ELSE x

\* math.floor / math.ceil of a rational (\div rounds towards minus infinity)
Floor(x) == x[1] \div x[2]
Ceil(x) == -((-x[1]) \div x[2])

\* x - floor(x), the fractional part in [0,1)
Frac(x) == Rat(x[1] % x[2], x[2])

\* Python 3 round(x) of a float: nearest integer, ties to the even one
round(x) ==
    LET f == Floor(x)
        twice == 2 * (x[1] - f * x[2])      \* 2 * (x - f) * den, in 0 .. 2*den-1
    IN  IF twice < x[2] THEN f
        ELSE IF twice > x[2] THEN f + 1
        ELSE IF f % 2 = 0 THEN f ELSE f + 1

\* np.sign of a rational sample
np_sign(x) == IF x[1] > 0 THEN 1 ELSE IF x[1] < 0 THEN -1 ELSE 0

(***************************************************************************)
(* numpy array constructors used by adsr.  A negative sample count makes   *)
(* np.linspace (and np.full) raise ValueError; the callers below test the  *)
(* count before building the array.                                        *)
(***************************************************************************)
\* np.linspace(start, stop, num) for num >= 0: num evenly spaced samples
\* from start to stop inclusive; a single sample is start alone
linspace(start, stop, num) ==
    IF num = 1 THEN <<start>>
    ELSE [k \in 1..num |->
            RAdd(start, RMul(Rat(k - 1, num - 1), RSub(stop, start)))]

\* np.full(num, value)
np_full(num, value) == [k \in 1..num |-> value]

(***************************************************************************)
(* Bounds of the argument sets of adsr.  Durations and the press time are  *)
(* multiples of 1/TimeDen seconds, sustain levels multiples of 1/LevelDen. *)
(***************************************************************************)
TimeDen == 2
MaxDurationTicks == 2
MaxPressTicks == 5
LevelDen == 2
MaxEnvelopeRate == 4

Durations == {Rat(k, TimeDen) : k \in 0..MaxDurationTicks}
PressTimes == {Rat(k, TimeDen) : k \in 0..MaxPressTicks}
Levels == {Rat(k, LevelDen) : k \in 0..LevelDen}
EnvelopeRates == 1..MaxEnvelopeRate

(***************************************************************************)
(* adsr(attack, decay, sustain, release, press_time, sample_rate)          *)
(***************************************************************************)
\* short_press = attack > press_time; sustain = 1 if short_press else sustain
adsr_short_press_sustain(attack, sustain, press_time) ==
    IF RLt(press_time, attack) THEN One ELSE sustain

\* variant of adsr_short_decay that forgets the clamp at zero
adsr_short_decay_unclamped(attack, decay, press_time) ==
    RMin(decay, RSub(press_time, attack))

\* short_decay = max(0, min(decay, press_time - attack))
adsr_short_decay(attack, decay, press_time) ==
    RMax(Zero, RMin(decay, RSub(press_time, attack)))

\* decay_ratio = short_decay / decay        (decay # 0)
adsr_decay_ratio(attack, decay, press_time) ==
    RDiv(adsr_short_decay(attack, decay, press_time), decay)

\* sustain = (1 - decay_ratio) + (decay_ratio * sustain)
adsr_sustain_level(attack, decay, sustain, press_time) ==
    LET decay_ratio == adsr_decay_ratio(attack, decay, press_time)
        s == adsr_short_press_sustain(attack, sustain, press_time)
    IN  RAdd(RSub(One, decay_ratio), RMul(decay_ratio, s))

\* variant of adsr_remaining_time that forgets to take the decay time off
adsr_remaining_time_with_decay(attack, decay, press_time) ==
    RMax(Zero, RSub(press_time, attack))

\* remaining_time = max(0, press_time - attack - decay), decay = short_decay
adsr_remaining_time(attack, decay, press_time) ==
    RMax(Zero, RSub(RSub(press_time, attack),
                    adsr_short_decay(attack, decay, press_time)))

\* variant of adsr_release_time that always runs the nominal release
adsr_release_time_nominal(attack, decay, release, press_time) == release

\* release = release - decay if decay_ratio < 1 else release, decay = short_decay
adsr_release_time(attack, decay, release, press_time) ==
    IF RLt(adsr_decay_ratio(attack, decay, press_time), One)
    THEN RSub(release, adsr_short_decay(attack, decay, press_time))
    ELSE release

\* The whole function.  ret.status is "ok" when an envelope is returned,
\* "ZeroDivisionError" when short_decay / decay divides by zero, and
\* "ValueError" when np.linspace is handed a negative number of samples.
adsr(attack, decay, sustain, release, press_time, sample_rate) ==
    IF decay = Zero THEN [status |-> "ZeroDivisionError"]
    ELSE
    LET level == adsr_sustain_level(attack, decay, sustain, press_time)
        attack_samples == round(RMul(attack, Whole(sample_rate)))
        decay_samples ==
            round(RMul(adsr_short_decay(attack, decay, press_time),
                       Whole(sample_rate)))
        sustain_samples ==
            round(RMul(adsr_remaining_time(attack, decay, press_time),
                       Whole(sample_rate)))
        release_samples ==
            round(RMul(adsr_release_time(attack, decay, release, press_time),
                       Whole(sample_rate)))
        locals == [sustain |-> level,
                   attack_samples |-> attack_samples,
                   decay_samples |-> decay_samples,
                   sustain_samples |-> sustain_samples,
                   release_samples |-> release_samples]
    IN  IF attack_samples < 0 \/ decay_samples < 0
           \/ sustain_samples < 0 \/ release_samples < 0
        THEN [status |-> "ValueError", locals |-> locals, env |-> <<>>]
        ELSE [status |-> "ok", locals |-> locals,
              env |-> linspace(Zero, One, attack_samples)
                      \o linspace(One, level, decay_samples)
                      \o np_full(sustain_samples, level)
                      \o linspace(level, Zero, release_samples)]

AdsrArgs ==
    [attack : Durations, decay : Durations, sustain : Levels,
     release : Durations, press_time : PressTimes,
     sample_rate : EnvelopeRates]

\* one call of adsr with the arguments of the pending call
adsr_call ==
    /\ op = "adsr"
    /\ ret.status = "pending"
    /\ ret' = adsr(args.attack, args.decay, args.sustain, args.release,
                   args.press_time, args.sample_rate)
    /\ UNCHANGED <<op, args>>

(***************************************************************************)
(* find_nearest_zero_crossing(array, i, positive_slope)                    *)
(*                                                                         *)
(* Arrays are sequences; indices are the 0-based indices of the code, so   *)
(* element k of an array is position k + 1 of its sequence.  An array of   *)
(* indices (np.where, np.setdiff1d) is a sequence in ascending order.      *)
(***************************************************************************)
MaxBufferLen == 4

SampleValues == {-1, 0, 1}
Buffers == UNION {[1..n -> SampleValues] : n \in 1..MaxBufferLen}

\* The values handed as positive_slope, written as Python literals: the three
\* documented ones and some that are neither a boolean nor None.
SlopeFilters == {"None", "True", "False", "2", "''"}
\* bool(v) of such a value
Truthy(v) == v \in {"True", "2"}

At(array, k) == array[k + 1]
IntSign(x) == IF x > 0 THEN 1 ELSE IF x < 0 THEN -1 ELSE 0

\* the elements of a finite set of integers in ascending order
RECURSIVE Ascending(_)
Ascending(S) ==
    IF S = {} THEN <<>>
    ELSE LET m == CHOOSE x \in S : \A y \in S : x <= y
         IN  <<m>> \o Ascending(S \ {m})

Elements(seq) == {seq[k] : k \in 1..Len(seq)}

\* differences = np.diff(np.sign(array)), as a function of the index k
differences(array) ==
    [k \in 0..(Len(array) - 2) |->
        IntSign(At(array, k + 1)) - IntSign(At(array, k))]

\* the if / elif chain on positive_slope, followed by crossings[0]
fnzc_where(array, positive_slope) ==
    LET d == differences(array)
    IN  IF positive_slope = "None"
        THEN Ascending({k \in DOMAIN d : Abs(d[k]) > 0})
        ELSE IF Truthy(positive_slope)
        THEN Ascending({k \in DOMAIN d : d[k] > 0})
        ELSE Ascending({k \in DOMAIN d : d[k] < 0})

\* sampled_zero_indices and bad_indices: the crossings whose sign step is 1
\* and whose own sample is not zero
fnzc_bad_indices(array, crossings) ==
    LET d == differences(array)
        sampled_zero_indices == {k \in Elements(crossings) : Abs(d[k]) = 1}
    IN  {k \in sampled_zero_indices : At(array, k) # 0}

\* crossings = np.setdiff1d(crossings, bad_indices)
fnzc_crossings(array, positive_slope) ==
    LET crossings == fnzc_where(array, positive_slope)
    IN  Ascending(Elements(crossings) \ fnzc_bad_indices(array, crossings))

\* variant of argmin that returns the last of the smallest elements
argmin_last(seq) ==
    CHOOSE k \in 0..(Len(seq) - 1) :
        \A j \in 0..(Len(seq) - 1) :
            /\ At(seq, k) <= At(seq, j)
            /\ j > k => At(seq, k) < At(seq, j)

\* ndarray.argmin() of a non-empty array: the first of the smallest elements
argmin(seq) ==
    CHOOSE k \in 0..(Len(seq) - 1) :
        \A j \in 0..(Len(seq) - 1) :
            /\ At(seq, k) <= At(seq, j)
            /\ j < k => At(seq, k) < At(seq, j)

\* The whole function.  The else branch that raises ValueError("positive_slope
\* must be boolean or None") cannot be taken: every value that is not None
\* is caught by `elif positive_slope` or by `elif not positive_slope`.
\* argmin raises ValueError on an empty array of crossings.
find_nearest_zero_crossing(array, i, positive_slope) ==
    LET crossings == fnzc_crossings(array, positive_slope)
        crossing_distance == [k \in 1..Len(crossings) |-> Abs(crossings[k] - i)]
    IN  IF crossings = <<>>
        THEN [status |-> "ValueError", crossings |-> crossings,
              message |-> "attempt to get argmin of an empty sequence"]
        ELSE [status |-> "ok", crossings |-> crossings,
              result |-> At(crossings, argmin(crossing_distance))]

FnzcArgs ==
    UNION {[array : {b}, i : 0..(Len(b) - 1), positive_slope : SlopeFilters] :
            b \in Buffers}

\* one call of find_nearest_zero_crossing
find_nearest_zero_crossing_call ==
    /\ op = "find_nearest_zero_crossing"
    /\ ret.status = "pending"
    /\ ret' = find_nearest_zero_crossing(args.array, args.i, args.positive_slope)
    /\ UNCHANGED <<op, args>>

(***************************************************************************)
(* The periodic waveform generators.                                       *)
(*                                                                         *)
(* frequency and sample_rate are integers, amplitude, length, phase and    *)
(* duty_cycle rationals.  A buffer is the sequence of its samples.  A sine *)
(* sample amplitude * sin(2 pi x) is kept as the pair of its amplitude and *)
(* of x reduced to [0,1) turns, of which the sign is known exactly.        *)
(***************************************************************************)
DEFAULT_SAMPLE_RATE == 48000
DEFAULT_FREQUENCY == 440

MaxLengthTicks == 3
PhaseDen == 4

Frequencies == {DEFAULT_FREQUENCY, 12000}
Amplitudes == {Rat(1, 5), One}
WaveLengths == {Rat(k, 4000) : k \in 1..MaxLengthTicks}
\* 44100 is the rate of the inspection script (TEST_SAMPLE_RATE)
WaveRates == {4400, 44100, DEFAULT_SAMPLE_RATE}
Phases == {Rat(k, PhaseDen) : k \in 0..(PhaseDen - 1)}
DutyCycles == {Rat(1, 8), Rat(1, 4), Rat(1, 2), Rat(3, 4)}

\* np.arange(sample_rate * length + extra_samples): 0, 1, ... below the
\* (possibly fractional) stop, nothing when the stop is not positive
_sample_count_array(length, sample_rate, extra_samples) ==
    LET stop == RAdd(RMul(sample_rate, length), Whole(extra_samples))
        count == IF Ceil(stop) > 0 THEN Ceil(stop) ELSE 0
    IN  [k \in 1..count |-> k - 1]

\* input_values * stretch_factor - offset, elementwise
_adjust_range(input_values, original_range, new_range) ==
    LET stretch_factor == RDiv(RSub(new_range[2], new_range[1]),
                               RSub(original_range[2], original_range[1]))
        offset == RSub(original_range[1], new_range[1])
    IN  [k \in 1..Len(input_values) |->
            RSub(RMul(input_values[k], stretch_factor), offset)]

\* round(phase * sample_rate / frequency)
_overshoot_for_phase_shift(frequency, sample_rate, phase) ==
    round(RDiv(RMul(phase, Whole(sample_rate)), Whole(frequency)))

\* variant of _shift_phase that keeps the leading samples
_shift_phase_untrimmed(wave, extra_samples) == wave

\* wave[extra_samples:]     (extra_samples >= 0)
_shift_phase(wave, extra_samples) ==
    SubSeq(wave, extra_samples + 1, Len(wave))

\* amplitude * sin(2 pi x)
SineSample(x, amplitude) == [turns |-> Frac(x), amplitude |-> amplitude]

\* np.sign of a sine sample
SineSign(sample) ==
    IF sample.turns = Zero \/ sample.turns = Rat(1, 2) THEN 0
    ELSE IF RLt(sample.turns, Rat(1, 2)) THEN np_sign(sample.amplitude)
    ELSE -np_sign(sample.amplitude)

sine_wave(frequency, amplitude, length, sample_rate, phase) ==
    LET extra_samples ==
            _overshoot_for_phase_shift(frequency, sample_rate, phase)
        t == _sample_count_array(length, Whole(sample_rate), extra_samples)
        sine_array == [k \in 1..Len(t) |->
                         SineSample(Rat(t[k] * frequency, sample_rate),
                                    amplitude)]
    IN  _shift_phase(sine_array, extra_samples)

\* sawtooth with range [0,1): index * frequency / DEFAULT_SAMPLE_RATE, less
\* its floor.  The sample_rate parameter only enters the sample count.
_sawtooth_basic(frequency, length, sample_rate, extra_samples) ==
    LET t == _sample_count_array(length, sample_rate, extra_samples)
    IN  [k \in 1..Len(t) |->
            Frac(Rat(t[k] * frequency, DEFAULT_SAMPLE_RATE))]

\* clipper = 0 if x >= duty_cycle else 1.  The call passes sample_rate and
\* length to _sawtooth_basic in each other's position, as the code does.
_pulse_basic(frequency, length, sample_rate, duty_cycle, extra_samples) ==
    LET pulse_array ==
            _sawtooth_basic(frequency, sample_rate, length, extra_samples)
    IN  [k \in 1..Len(pulse_array) |->
            IF RLe(duty_cycle, pulse_array[k]) THEN Zero ELSE One]

pulse_wave(frequency, amplitude, length, sample_rate, phase, duty_cycle) ==
    LET extra_samples ==
            _overshoot_for_phase_shift(frequency, sample_rate, phase)
        pulse_array == _pulse_basic(frequency, length, Whole(sample_rate),
                                    duty_cycle, extra_samples)
        adjusted == _adjust_range(pulse_array, <<Zero, One>>,
                                  <<RNeg(amplitude), amplitude>>)
    IN  _shift_phase(adjusted, extra_samples)

\* phase = (phase + 0.5) % 1, then as pulse_wave without the clipper; here too
\* sample_rate and length reach _sawtooth_basic in each other's position
sawtooth_wave(frequency, amplitude, length, sample_rate, phase) ==
    LET shifted == Frac(RAdd(phase, Rat(1, 2)))
        extra_samples ==
            _overshoot_for_phase_shift(frequency, sample_rate, shifted)
        sawtooth_array == _sawtooth_basic(frequency, Whole(sample_rate),
                                          length, extra_samples)
        adjusted == _adjust_range(sawtooth_array, <<Zero, One>>,
                                  <<RNeg(amplitude), amplitude>>)
    IN  _shift_phase(adjusted, extra_samples)

\* phase = (phase + 0.25) % 1, np.abs of the sawtooth at that phase, rescaled
\* from (0, amplitude) to (-amplitude, amplitude)
triangle_wave(frequency, amplitude, length, sample_rate, phase) ==
    LET shifted == Frac(RAdd(phase, Rat(1, 4)))
        saw == sawtooth_wave(frequency, amplitude, length, sample_rate, shifted)
        triangle_array == [k \in 1..Len(saw) |-> RAbs(saw[k])]
    IN  _adjust_range(triangle_array, <<Zero, amplitude>>,
                      <<RNeg(amplitude), amplitude>>)

WaveArgs ==
    [frequency : Frequencies, amplitude : Amplitudes, length : WaveLengths,
     sample_rate : WaveRates, phase : Phases]
PulseArgs ==
    [frequency : Frequencies, amplitude : Amplitudes, length : WaveLengths,
     sample_rate : WaveRates, phase : Phases, duty_cycle : DutyCycles]

sine_wave_call ==
    /\ op = "sine_wave"
    /\ ret.status = "pending"
    /\ ret' = [status |-> "ok",
               wave |-> sine_wave(args.frequency, args.amplitude, args.length,
                                  args.sample_rate, args.phase)]
    /\ UNCHANGED <<op, args>>

sawtooth_wave_call ==
    /\ op = "sawtooth_wave"
    /\ ret.status = "pending"
    /\ ret' = [status |-> "ok",
               wave |-> sawtooth_wave(args.frequency, args.amplitude,
                                      args.length, args.sample_rate,
                                      args.phase)]
    /\ UNCHANGED <<op, args>>

triangle_wave_call ==
    /\ op = "triangle_wave"
    /\ ret.status = "pending"
    /\ ret' = [status |-> "ok",
               wave |-> triangle_wave(args.frequency, args.amplitude,
                                      args.length, args.sample_rate,
                                      args.phase)]
    /\ UNCHANGED <<op, args>>

pulse_wave_call ==
    /\ op = "pulse_wave"
    /\ ret.status = "pending"
    /\ ret' = [status |-> "ok",
               wave |-> pulse_wave(args.frequency, args.amplitude, args.length,
                                   args.sample_rate, args.phase,
                                   args.duty_cycle)]
    /\ UNCHANGED <<op, args>>

(***************************************************************************)
(* The specification.  The library keeps no state across calls, so a       *)
(* behaviour is one call: Init draws the function and its arguments, the   *)
(* action of that function runs it to completion and stores what it        *)
(* returned or raised.                                                     *)
(***************************************************************************)
Init ==
    /\ ret = [status |-> "pending"]
    /\ \/ op = "adsr" /\ args \in AdsrArgs
       \/ op = "find_nearest_zero_crossing" /\ args \in FnzcArgs
       \/ op \in {"sine_wave", "sawtooth_wave", "triangle_wave"}
          /\ args \in WaveArgs
       \/ op = "pulse_wave" /\ args \in PulseArgs

Next ==
    \/ adsr_call
    \/ find_nearest_zero_crossing_call
    \/ sine_wave_call
    \/ sawtooth_wave_call
    \/ triangle_wave_call
    \/ pulse_wave_call

Spec == Init /\ [][Next]_vars

(***************************************************************************)
(* Vocabulary of the properties, stated without the operators of the       *)
(* model: what a rounded count, a linear ramp and a constant segment are.  *)
(***************************************************************************)
Done == ret.status # "pending"

\* n is x rounded to the nearest integer, an exact half going to the even one
IsRounded(n, x) ==
    LET twice == 2 * Abs(n * x[2] - x[1])
    IN  twice <= x[2] /\ (twice = x[2] => n % 2 = 0)

Rounded(x) == CHOOSE n \in {Floor(x), Floor(x) + 1} : IsRounded(n, x)

\* count samples of seq after the first skip
Segment(seq, skip, count) == SubSeq(seq, skip + 1, skip + count)

\* seq rises or falls linearly from a to b: it starts at a, ends at b when it
\* has two samples or more, and every step is the same (b - a) / (Len - 1)
IsRamp(seq, a, b) ==
    /\ Len(seq) >= 1 => seq[1] = a
    /\ Len(seq) >= 2 =>
        /\ seq[Len(seq)] = b
        /\ \A k \in 1..(Len(seq) - 1) :
              RMul(RSub(seq[k + 1], seq[k]), Whole(Len(seq) - 1)) = RSub(b, a)

IsConstant(seq, v) == \A k \in 1..Len(seq) : seq[k] = v

\* env is four segments of na, nd, ns and nr samples: a ramp 0 to 1, a ramp
\* 1 to level, a constant level and a ramp level to 0
IsEnvelope(env, na, nd, ns, nr, level) ==
    /\ na >= 0 /\ nd >= 0 /\ ns >= 0 /\ nr >= 0
    /\ Len(env) = na + nd + ns + nr
    /\ IsRamp(Segment(env, 0, na), Zero, One)
    /\ IsRamp(Segment(env, na, nd), One, level)
    /\ IsConstant(Segment(env, na + nd, ns), level)
    /\ IsRamp(Segment(env, na + nd + ns, nr), level, Zero)

AdsrDone == op = "adsr" /\ Done
Rate == Whole(args.sample_rate)
\* the time the key is held after the attack
HeldAfterAttack == RSub(args.press_time, args.attack)
RegularPress ==
    /\ AdsrDone /\ RLt(Zero, args.decay)
    /\ RLe(RAdd(args.attack, args.decay), args.press_time)
ReleasedInDecay ==
    /\ AdsrDone /\ RLt(Zero, args.decay)
    /\ RLe(args.attack, args.press_time)
    /\ RLt(args.press_time, RAdd(args.attack, args.decay))
ReleasedInAttack ==
    /\ AdsrDone /\ RLt(Zero, args.decay)
    /\ RLe(args.press_time, args.attack)
\* effective_decay = clamp(press_time - attack) to [0, decay]
EffectiveDecay ==
    IF RLt(HeldAfterAttack, Zero) THEN Zero
    ELSE IF RLt(args.decay, HeldAfterAttack) THEN args.decay
    ELSE HeldAfterAttack
\* the level the decay reaches when the key is released in the decay
InterpolatedLevel ==
    RSub(One, RMul(RDiv(HeldAfterAttack, args.decay), RSub(One, args.sustain)))

(***************************************************************************)
(* C1: adsr, regular case.  When decay > 0 and press_time >= attack +      *)
(* decay, adsr returns the concatenation of four segments of               *)
(* round(attack*rate), round(decay*rate), round((press_time - attack -     *)
(* decay)*rate) and round(release*rate) samples: a ramp 0 to 1, a ramp 1   *)
(* to the nominal sustain level, a constant at that level, a ramp from     *)
(* that level to 0.                                                        *)
(***************************************************************************)
C1_RegularCase ==
    RegularPress =>
        /\ ret.status = "ok"
        /\ IsEnvelope(ret.env,
                      Rounded(RMul(args.attack, Rate)),
                      Rounded(RMul(args.decay, Rate)),
                      Rounded(RMul(RSub(HeldAfterAttack, args.decay), Rate)),
                      Rounded(RMul(args.release, Rate)),
                      args.sustain)

\* a regular press whose four segments all have two samples or more and
\* whose sustain level is strictly between 0 and 1
C1_Witness ==
    /\ RegularPress /\ ret.status = "ok"
    /\ RLt(Zero, args.sustain) /\ RLt(args.sustain, One)
    /\ ret.locals.attack_samples >= 2 /\ ret.locals.decay_samples >= 2
    /\ ret.locals.sustain_samples >= 2 /\ ret.locals.release_samples >= 2
    /\ Len(ret.env) = ret.locals.attack_samples + ret.locals.decay_samples
                      + ret.locals.sustain_samples + ret.locals.release_samples

(***************************************************************************)
(* C2: adsr, key released during the decay.  When decay > 0 and attack <=  *)
(* press_time < attack + decay, adsr returns the attack ramp 0 to 1 over   *)
(* round(attack*rate) samples, a decay ramp 1 to L = 1 - ((press_time -    *)
(* attack)/decay)*(1 - sustain) over round((press_time - attack)*rate)     *)
(* samples, no sustain sample, and a release ramp L to 0 over              *)
(* round((release - (press_time - attack))*rate) samples.                  *)
(***************************************************************************)
C2_ReleasedInDecay ==
    ReleasedInDecay =>
        /\ ret.status = "ok"
        /\ IsEnvelope(ret.env,
                      Rounded(RMul(args.attack, Rate)),
                      Rounded(RMul(HeldAfterAttack, Rate)),
                      0,
                      Rounded(RMul(RSub(args.release, HeldAfterAttack), Rate)),
                      InterpolatedLevel)

\* C2 wherever adsr returns an envelope: the claim fails only where the call
\* raises on a negative release count
C2_WhenReturned == (ReleasedInDecay /\ ret.status # "ok") \/ C2_ReleasedInDecay

(***************************************************************************)
(* C3: adsr, press no longer than the attack.  When decay > 0 and          *)
(* press_time <= attack, the effective sustain level is 1, the decay and   *)
(* sustain segments are empty, and adsr returns the full attack ramp 0 to  *)
(* 1 over round(attack*rate) samples followed by the full release ramp 1   *)
(* to 0 over round(release*rate) samples, whatever press_time is.          *)
(***************************************************************************)
C3_ReleasedInAttack ==
    ReleasedInAttack =>
        /\ ret.status = "ok"
        /\ ret.locals.sustain = One
        /\ ret.locals.decay_samples = 0
        /\ ret.locals.sustain_samples = 0
        /\ IsEnvelope(ret.env,
                      Rounded(RMul(args.attack, Rate)), 0, 0,
                      Rounded(RMul(args.release, Rate)),
                      One)

\* a press strictly shorter than the attack, a nominal sustain below 1, and
\* both ramps with two samples or more
C3_Witness ==
    /\ ReleasedInAttack /\ ret.status = "ok"
    /\ RLt(Zero, args.press_time) /\ RLt(args.press_time, args.attack)
    /\ RLt(args.sustain, One)
    /\ ret.locals.attack_samples >= 2 /\ ret.locals.release_samples >= 2
    /\ Len(ret.env) = ret.locals.attack_samples + ret.locals.release_samples

(***************************************************************************)
(* C4: adsr segment counts.  When decay > 0 (all other arguments in their  *)
(* documented ranges), adsr returns an envelope, each of the four computed *)
(* sample counts is >= 0 and the length of the envelope is their sum.      *)
(***************************************************************************)
C4_CountsNonNegative ==
    (AdsrDone /\ RLt(Zero, args.decay)) =>
        /\ ret.status = "ok"
        /\ ret.locals.attack_samples >= 0
        /\ ret.locals.decay_samples >= 0
        /\ ret.locals.sustain_samples >= 0
        /\ ret.locals.release_samples >= 0
        /\ Len(ret.env) = ret.locals.attack_samples + ret.locals.decay_samples
                          + ret.locals.sustain_samples
                          + ret.locals.release_samples

(***************************************************************************)
(* C5 as claimed: the release always has its nominal round(release*rate)   *)
(* samples, whether the decay was fully consumed or not.                   *)
(***************************************************************************)
C5_ReleaseNominal ==
    (AdsrDone /\ RLt(Zero, args.decay) /\ ret.status = "ok") =>
        ret.locals.release_samples = Rounded(RMul(args.release, Rate))

(***************************************************************************)
(* C5 as amended: when the decay was not fully consumed (effective_decay < *)
(* decay) the release is shortened by the decay time that was consumed:    *)
(* the computed release count is round((release - effective_decay)*rate),  *)
(* the call raises when that count is negative and otherwise the envelope  *)
(* ends with a ramp of that many samples from the interpolated level to 0. *)
(* When the decay was fully consumed the count is round(release*rate).     *)
(***************************************************************************)
C5_ReleaseShortened ==
    (AdsrDone /\ RLt(Zero, args.decay)) =>
        LET nr == ret.locals.release_samples
            level == RSub(One, RMul(RDiv(EffectiveDecay, args.decay),
                                    RSub(One, args.sustain)))
        IN  /\ RLt(EffectiveDecay, args.decay) =>
                /\ nr = Rounded(RMul(RSub(args.release, EffectiveDecay), Rate))
                /\ ret.status = (IF nr < 0 THEN "ValueError" ELSE "ok")
                /\ nr >= 0 =>
                     IsRamp(Segment(ret.env, Len(ret.env) - nr, nr),
                            level, Zero)
            /\ EffectiveDecay = args.decay =>
                nr = Rounded(RMul(args.release, Rate))

\* a key released strictly inside the decay, whose release ramp is shorter
\* than the nominal release and still has two samples or more
C5_Witness ==
    /\ ReleasedInDecay /\ ret.status = "ok"
    /\ RLt(Zero, EffectiveDecay) /\ RLt(EffectiveDecay, args.decay)
    /\ ret.locals.release_samples >= 2
    /\ ret.locals.release_samples < Rounded(RMul(args.release, Rate))

FnzcDone == op = "find_nearest_zero_crossing" /\ Done
StrictlyOpposite(a, b) == IntSign(a) * IntSign(b) = -1

(***************************************************************************)
(* C6: find_nearest_zero_crossing selection rule.  Whenever the crossing   *)
(* set is not empty the call returns a member r of it that is at least as  *)
(* near to i as every crossing c, and of two crossings equally near to i   *)
(* the smaller one.                                                        *)
(***************************************************************************)
C6_NearestSmallest ==
    (FnzcDone /\ ret.crossings # <<>>) =>
        /\ ret.status = "ok"
        /\ ret.result \in Elements(ret.crossings)
        /\ \A c \in Elements(ret.crossings) :
              /\ Abs(ret.result - args.i) <= Abs(c - args.i)
              /\ Abs(ret.result - args.i) = Abs(c - args.i) => ret.result <= c

\* two crossings on either side of i and equally near to it, the lower one
\* returned
C6_Witness ==
    /\ FnzcDone /\ ret.status = "ok"
    /\ \E c \in Elements(ret.crossings) :
          /\ c > args.i
          /\ ret.result < args.i
          /\ c - args.i = args.i - ret.result

(***************************************************************************)
(* C7: exact-zero collapse, for the unfiltered crossing set.  For every    *)
(* pair of consecutive samples k, k+1 whose signs differ and of which one  *)
(* is exactly zero, the crossing set holds the index of the zero sample,   *)
(* and holds the index of the other sample only if that sample is itself   *)
(* the first of a pair of strictly opposite signs; and the index returned  *)
(* is that of a zero sample or of the first of two samples of strictly     *)
(* opposite signs.                                                         *)
(***************************************************************************)
C7_ExactZeroCollapse ==
    (FnzcDone /\ args.positive_slope = "None") =>
        LET array == args.array
            last == Len(array) - 1
            crossings == Elements(ret.crossings)
            Genuine(j) ==
                \/ At(array, j) = 0
                \/ j < last /\ StrictlyOpposite(At(array, j), At(array, j + 1))
        IN  /\ \A k \in 0..(last - 1) :
                LET zero == IF At(array, k) = 0 THEN k ELSE k + 1
                    other == IF At(array, k) = 0 THEN k + 1 ELSE k
                IN  (/\ IntSign(At(array, k)) # IntSign(At(array, k + 1))
                     /\ (At(array, k) = 0 \/ At(array, k + 1) = 0)) =>
                        /\ zero \in crossings
                        /\ other \in crossings => Genuine(other)
            /\ ret.status = "ok" => Genuine(ret.result)

(***************************************************************************)
(* C8: invalid slope filter.  Whenever positive_slope is a value other     *)
(* than True, False or None the call fails with a ValueError and returns   *)
(* no index.                                                               *)
(***************************************************************************)
C8_InvalidFilterRaises ==
    (FnzcDone /\ args.positive_slope \notin {"None", "True", "False"}) =>
        ret.status = "ValueError"

WaveDone == op \in {"sine_wave", "sawtooth_wave", "triangle_wave", "pulse_wave"} /\ Done

\* the signs of the samples of a buffer, and of a sine buffer
Signs(wave) == [k \in 1..Len(wave) |-> np_sign(wave[k])]
SineSigns(wave) == [k \in 1..Len(wave) |-> SineSign(wave[k])]
\* the indices the locator holds as ascending zero crossings of a buffer
\* with these signs
AscendingCrossings(signs) == Elements(fnzc_crossings(signs, "True"))

(***************************************************************************)
(* C9: cross-shape phase alignment.  At 440 Hz and phase 0, for every      *)
(* amplitude and sample rate, the sawtooth and the triangle have their     *)
(* ascending zero crossings at the same sample indices as the sine of the  *)
(* same arguments, and the pulse of duty cycle 0.5 is positive wherever    *)
(* that sine is positive and negative wherever it is negative.             *)
(***************************************************************************)
C9_PhaseAligned ==
    (/\ WaveDone
     /\ args.frequency = DEFAULT_FREQUENCY
     /\ args.phase = Zero) =>
        LET sine == SineSigns(sine_wave(args.frequency, args.amplitude,
                                        args.length, args.sample_rate,
                                        args.phase))
        IN  /\ op \in {"sawtooth_wave", "triangle_wave"} =>
                AscendingCrossings(Signs(ret.wave)) = AscendingCrossings(sine)
            /\ (op = "pulse_wave" /\ args.duty_cycle = Rat(1, 2)) =>
                /\ Len(ret.wave) = Len(sine)
                /\ \A k \in 1..Len(sine) :
                      /\ sine[k] > 0 => np_sign(ret.wave[k]) > 0
                      /\ sine[k] < 0 => np_sign(ret.wave[k]) < 0

(***************************************************************************)
(* C10: the sawtooth ramp uses the caller's sample rate.  Sample n of      *)
(* sawtooth_wave is fractional_part((n + overshoot) * frequency /          *)
(* sample_rate) rescaled from [0,1) to [-amplitude, amplitude), with       *)
(* overshoot = round(((phase + 0.5) mod 1) * sample_rate / frequency); and *)
(* sample n of pulse_wave is amplitude where the same ramp, with overshoot *)
(* = round(phase * sample_rate / frequency), is below the duty cycle and   *)
(* -amplitude elsewhere.                                                   *)
(***************************************************************************)
C10_RampUsesSampleRate ==
    LET Ramp(n, overshoot) ==
            Frac(Rat((n + overshoot) * args.frequency, args.sample_rate))
        Overshoot(phase) ==
            Rounded(RDiv(RMul(phase, Whole(args.sample_rate)),
                         Whole(args.frequency)))
        Rescaled(x) ==
            RSub(RMul(x, RMul(Whole(2), args.amplitude)), args.amplitude)
    IN  /\ (op = "sawtooth_wave" /\ Done) =>
            \A n \in 0..(Len(ret.wave) - 1) :
                At(ret.wave, n) =
                    Rescaled(Ramp(n, Overshoot(Frac(RAdd(args.phase,
                                                         Rat(1, 2))))))
        /\ (op = "pulse_wave" /\ Done) =>
            \A n \in 0..(Len(ret.wave) - 1) :
                At(ret.wave, n) =
                    IF RLt(Ramp(n, Overshoot(args.phase)), args.duty_cycle)
                    THEN args.amplitude ELSE RNeg(args.amplitude)

\* C10 for calls at the default sample rate, where the constant the code
\* divides by and the caller's sample rate are the same number
C10_AtDefaultRate ==
    (WaveDone /\ args.sample_rate = DEFAULT_SAMPLE_RATE) =>
        C10_RampUsesSampleRate

\* sample_rate * length, the exact number of sample periods asked for
SamplePeriods == RMul(Whole(args.sample_rate), args.length)
\* the overshoot of sine_wave, computed from the arguments
SineOvershoot ==
    Rounded(RDiv(RMul(args.phase, Whole(args.sample_rate)),
                 Whole(args.frequency)))

(***************************************************************************)
(* C11 as claimed: each of the four generators returns exactly             *)
(* N = round(sample_rate * length) samples.                                *)
(***************************************************************************)
C11_RoundedLength ==
    WaveDone => Len(ret.wave) = Rounded(SamplePeriods)

(***************************************************************************)
(* C11 as amended: each of the four generators returns exactly             *)
(* N = ceil(sample_rate * length) samples (sample_rate * length itself     *)
(* when that is a whole number), the first overshoot raw samples being     *)
(* discarded: sample 0 of sine_wave is the raw sample of index overshoot = *)
(* round(phase * sample_rate / frequency).                                 *)
(***************************************************************************)
C11_CeilLength ==
    WaveDone =>
        /\ \A n \in 0..Len(ret.wave) :
              Len(ret.wave) = n <=>
                  (RLe(SamplePeriods, Whole(n)) /\ RLt(Whole(n - 1), SamplePeriods))
        /\ op = "sine_wave" =>
              At(ret.wave, 0).turns =
                  Frac(Rat(SineOvershoot * args.frequency, args.sample_rate))

\* a call whose sample_rate * length is not whole and rounds down, with a
\* positive overshoot discarded
C11_Witness ==
    /\ WaveDone /\ op = "sine_wave"
    /\ SineOvershoot > 0
    /\ RLt(Whole(Rounded(SamplePeriods)), SamplePeriods)
    /\ Len(ret.wave) = Rounded(SamplePeriods) + 1

(***************************************************************************)
(* C12: crossing between samples.  When samples k and k+1 are non-zero and *)
(* of opposite signs, and every other crossing is farther from i than both *)
(* k and k+1, the unfiltered call returns the one of k and k+1 that is     *)
(* closer to i: k when i <= k, k+1 when i >= k+1.                          *)
(***************************************************************************)
C12_CloserStraddlingIndex ==
    (FnzcDone /\ args.positive_slope = "None") =>
        \A k \in 0..(Len(args.array) - 2) :
            (/\ StrictlyOpposite(At(args.array, k), At(args.array, k + 1))
             /\ \A c \in Elements(ret.crossings) \ {k} :
                   /\ Abs(c - args.i) > Abs(k - args.i)
                   /\ Abs(c - args.i) > Abs(k + 1 - args.i)) =>
                /\ ret.status = "ok"
                /\ ret.result = (IF args.i <= k THEN k ELSE k + 1)

(***************************************************************************)
(* C13: adsr is total.  For every attack, decay (zero included) and        *)
(* release >= 0, sustain in [0,1] and press_time >= 0, adsr returns an     *)
(* envelope; with decay = 0 the decay segment is empty.                    *)
(***************************************************************************)
C13_AdsrTotal ==
    AdsrDone =>
        /\ ret.status = "ok"
        /\ args.decay = Zero => ret.locals.decay_samples = 0

=============================================================================
